---- MODULE Spec2Model ----
(***************************************************************************)
(* Model of src/main.rs of rust_mdns_client: the foreground loop of App    *)
(* (main, run, handle_key_event, start_scanner, render) and the scan task  *)
(* spawned by start_scanner, which share the record store                  *)
(* Arc<Mutex<RecordEntries>>.                                              *)
(*                                                                         *)
(* Every `records.lock().unwrap().<op>` statement of the source is one     *)
(* critical section: the guard is a temporary dropped at the end of the    *)
(* statement, so each such statement is one atomic action here and the     *)
(* other thread may run between any two of them.                           *)
(*                                                                         *)
(* The scan task follows async-std's task semantics: a task is polled      *)
(* until its future returns Pending; JoinHandle::cancel().await marks the  *)
(* task closed and returns once the future has been dropped, which happens *)
(* at the task's next return to the executor (or at once when the task is  *)
(* not being polled).                                                      *)
(***************************************************************************)
EXTENDS Integers, Sequences, FiniteSets, TLC

\* ------------------------------------------------------------------ bounds
MaxGen == 2
MaxWire == 2
MaxQueryLen == 1

\* ------------------------------------------------------------- input sets
\* host names, address families and keys the environment may produce
Names == {"a", "b"}
Fams == {4, 6}
\* KeyCode::Char keys, and the ones among them typed into the query buffer
KeyChars == {"q", "/"}
TypedChars == {"/"}
Keys == KeyChars \cup {"Esc", "Enter", "Backspace", "Tab"}
\* Option::None for addresses and for the child handle
None == 0

\* answer records a response may carry: two addresses for the slot
\* (IPv4, "a"), one for (IPv6, "a") and for (IPv4, "b"); "TXT" stands for
\* every record kind other than A and AAAA
WireRecords ==
  { [kind |-> "A", addr |-> 1, name |-> "a"],
    [kind |-> "A", addr |-> 2, name |-> "a"],
    [kind |-> "AAAA", addr |-> 1, name |-> "a"],
    [kind |-> "A", addr |-> 1, name |-> "b"],
    [kind |-> "TXT", addr |-> 1, name |-> "a"] }

RECURSIVE SeqsUpTo(_, _)
SeqsUpTo(S, n) ==
  IF n = 0 THEN {<<>>}
  ELSE LET shorter == SeqsUpTo(S, n - 1)
       IN shorter \cup {Append(s, x) : s \in {t \in shorter : Len(t) = n - 1}, x \in S}

\* ------------------------------------------------------------ record model
\* to_ip_addr: Some((addr, name)) for A and AAAA, None otherwise; the
\* address keeps its family (IpAddr::V4 / IpAddr::V6)
to_ip_addr(r) ==
  IF r.kind = "A" THEN <<[fam |-> 4, addr |-> r.addr, name |-> r.name]>>
  ELSE IF r.kind = "AAAA" THEN <<[fam |-> 6, addr |-> r.addr, name |-> r.name]>>
  ELSE <<>>

\* response.records().filter_map(to_ip_addr).collect()
RECURSIVE FilterMap(_)
FilterMap(rs) ==
  IF rs = <<>> THEN <<>> ELSE to_ip_addr(Head(rs)) \o FilterMap(Tail(rs))

\* RecordEntry::new: A for a V4 address, AAAA for a V6 address.  The field
\* gen is a history tag (the scan task that pushed the entry); no operator
\* of the program reads it.
RecordEntryNew(p, g) ==
  [fam |-> p.fam, addr |-> p.addr, name |-> p.name, gen |-> g]

get_name(e) == e.name
is_ipv4(e) == e.fam = 4
is_ipv6(e) == e.fam = 6
get_addr(e) == e.addr

\* String order on the host names of the model
NameRank(n) == IF n = "a" THEN 1 ELSE 2

EntryLessNameFirst(x, y) ==
  \/ NameRank(x.name) < NameRank(y.name)
  \/ x.name = y.name /\ x.fam < y.fam
  \/ x.name = y.name /\ x.fam = y.fam /\ x.addr < y.addr

\* derived Ord of RecordEntry: variant A before AAAA, then the address,
\* then the name
EntryLess(x, y) ==
  \/ x.fam < y.fam
  \/ x.fam = y.fam /\ x.addr < y.addr
  \/ x.fam = y.fam /\ x.addr = y.addr /\ NameRank(x.name) < NameRank(y.name)

\* the closure of entries.retain(..) in the scan loop, negated: the entry is
\* dropped when it has the family and the name of the incoming pair
EvictsOnlyIpv4(e, p) == e.fam = 4 /\ p.fam = 4 /\ e.name = p.name
EvictsWrongKey(e, p) == e.name = p.name
Evicts(e, p) ==
  \/ e.fam = 4 /\ p.fam = 4 /\ e.name = p.name
  \/ e.fam = 6 /\ p.fam = 6 /\ e.name = p.name

RetainKeepsAll(s, p) == s
RECURSIVE Retain(_, _)
\* entries.retain(|r| !evicts(r)): keeps the other entries in their order
Retain(s, p) ==
  IF s = <<>> THEN <<>>
  ELSE IF Evicts(Head(s), p) THEN Retain(Tail(s), p)
  ELSE <<Head(s)>> \o Retain(Tail(s), p)

RECURSIVE InsertSorted(_, _)
InsertSorted(s, x) ==
  IF s = <<>> THEN <<x>>
  ELSE IF EntryLess(x, Head(s)) THEN <<x>> \o s
  ELSE <<Head(s)>> \o InsertSorted(Tail(s), x)

RECURSIVE Sort(_)
\* entries.sort(): stable, ascending in the derived order
Sort(s) == IF s = <<>> THEN <<>> ELSE InsertSorted(Sort(SubSeq(s, 1, Len(s) - 1)), s[Len(s)])

\* Vec::pop of find, mapped to get_addr: the address of the last entry, or
\* None for an empty vector
PopAddr(s) == IF s = <<>> THEN None ELSE get_addr(s[Len(s)])

findAnyName(s, name) ==
  <<PopAddr(SelectSeq(s, is_ipv4)), PopAddr(SelectSeq(s, is_ipv6))>>

\* RecordEntries::find: the entries of that name, split by family, the last
\* of each family popped
find(s, name) ==
  LET remaining == SelectSeq(s, LAMBDA r : get_name(r) = name)
      ipv4 == SelectSeq(remaining, is_ipv4)
      ipv6 == SelectSeq(remaining, is_ipv6)
  IN <<PopAddr(ipv4), PopAddr(ipv6)>>

\* one iteration of the scan loop run without interruption: the evictions
\* and insertions of the batch in order, then the sort
RECURSIVE ApplySteps(_, _, _)
ApplySteps(s, batch, g) ==
  IF batch = <<>> THEN s
  ELSE ApplySteps(Append(Retain(s, Head(batch)), RecordEntryNew(Head(batch), g)),
                  Tail(batch), g)

ApplyBatch(s, batch, g) == Sort(ApplySteps(s, batch, g))

\* render: hosts.retain(|h| { let r = !seen.contains(h); seen.push(h.clone()); r })
RetainUnseenKeepsAll(hosts, seen) == hosts
RECURSIVE RetainUnseen(_, _)
RetainUnseen(hosts, seen) ==
  IF hosts = <<>> THEN <<>>
  ELSE LET h == Head(hosts)
           r == \A j \in 1..Len(seen) : seen[j] # h
       IN (IF r THEN <<h>> ELSE <<>>) \o RetainUnseen(Tail(hosts), Append(seen, h))

\* render: the host column, the names of the entries in order without repeats
DistinctHostNames(s) == RetainUnseen([j \in 1..Len(s) |-> get_name(s[j])], <<>>)

\* render: a cell is the address found or the text "Not found"
Cell(o) ==
  IF o = None THEN [text |-> "Not found", ip |-> None] ELSE [text |-> "ip", ip |-> o]

\* render: one Row per host, the name and the two cells of records.find(h)
Rows(s) ==
  LET hosts == DistinctHostNames(s) IN
  [j \in 1..Len(hosts) |->
     LET f == find(s, hosts[j]) IN
     [host |-> hosts[j], v4 |-> Cell(f[1]), v6 |-> Cell(f[2])]]

\* ------------------------------------------------------------------- state
VARIABLES
  pc,          \* position of the foreground task (main / run / handlers)
  ret,         \* caller of the start_scanner in progress: "main" or "commit"
  awaiting,    \* handle taken out of self.child whose cancel() is awaited
  exit,        \* App.exit
  editing,     \* App.editing
  query,       \* App.query
  child,       \* App.child: generation of the held JoinHandle, or None
  records,     \* App.records: the entries behind the mutex
  task,        \* the spawned scan tasks, by generation
  nextGen,     \* generation the next task::spawn gets
  snap,        \* the clone render took at the last draw
  rows,        \* the table rows render built from that clone
  lock,        \* holder of the mutex around the entries
  lastApplied, \* history: address pushed last per (family, name) since the store was last emptied
  delivered    \* history: answer records the response streams have yielded so far

vars == <<pc, ret, awaiting, exit, editing, query, child, records, task,
          nextGen, snap, rows, lock, lastApplied, delivered>>

Gens == 1..MaxGen
Queries == SeqsUpTo(TypedChars, MaxQueryLen)
SlotKeys == Fams \X Names

\* stream items: Some(Ok(response)), Some(Err(_)), None
Items ==
  [kind : {"ok"}, recs : SeqsUpTo(WireRecords, MaxWire)]
    \cup {[kind |-> "err", recs |-> <<>>], [kind |-> "end", recs |-> <<>>]}

\* what an item takes of the bound on the streams: its answer records, an
\* item without records counting as one
Cost(item) == IF Len(item.recs) = 0 THEN 1 ELSE Len(item.recs)

AliveStates == {"spawned", "poll", "suspended", "retain", "push", "sort"}
DeadStates == {"cancelled", "ended", "panicked", "joined"}
MidBatch == {"retain", "push", "sort"}

NoTask ==
  [st |-> "unborn", cancel |-> FALSE, query |-> <<>>, batch |-> <<>>, i |-> 0,
   pre |-> <<>>, last |-> "none"]

Alive(g) == task[g].st \in AliveStates

\* Mutex<RecordEntries>: free, or locked by the foreground or by a scan task
Free == [by |-> "none", g |-> None]
HeldByFg == [by |-> "fg", g |-> None]
HeldByTask(g) == [by |-> "task", g |-> g]

\* App::default(), before Args::parse()
Init ==
  /\ pc = "main"
  /\ ret = "main"
  /\ awaiting = None
  /\ exit = FALSE
  /\ editing = FALSE
  /\ query = <<>>
  /\ child = None
  /\ records = <<>>
  /\ task = [g \in Gens |-> NoTask]
  /\ nextGen = 1
  /\ snap = <<>>
  /\ rows = <<>>
  /\ lock = Free
  /\ lastApplied = [k \in SlotKeys |-> None]
  /\ delivered = 0

\* ------------------------------------------------------- foreground: start
ArgChoices ==
  {[some |-> FALSE, q |-> <<>>]} \cup {[some |-> TRUE, q |-> q] : q \in Queries}

\* c.cancel().await returns: the future of the task has been dropped
StoppedAtOnce(g) == TRUE
Stopped(g) == task[g].st \in DeadStates

\* start_scanner: the JoinHandle is consumed by cancel() and the Option it
\* returns is discarded, nothing of the stopped task outlives the await
Joined(t) == IF t.st \in DeadStates THEN [NoTask EXCEPT !.st = "joined"] ELSE t

\* start_scanner up to its suspension point: the query is cloned (it cannot
\* change before the spawn, the foreground being inside this call), the
\* handle is taken out of self.child and its cancellation requested
StartScanner(r) ==
  /\ ret' = r
  /\ child' = None
  /\ IF child # None
       THEN /\ task' = [task EXCEPT ![child].cancel = TRUE]
            /\ awaiting' = child
            /\ pc' = "cancel_wait"
       ELSE /\ pc' = "spawn"
            /\ UNCHANGED <<task, awaiting>>

\* main: Args::parse() and the match on args.query
MainArgs(a) ==
  /\ pc = "main"
  /\ IF a.some
       THEN /\ query' = a.q
            /\ StartScanner("main")
            /\ UNCHANGED editing
       ELSE /\ query' = <<>>
            /\ editing' = FALSE
            /\ pc' = "loop"
            /\ UNCHANGED <<ret, awaiting, child, task>>
  /\ UNCHANGED <<exit, records, nextGen, snap, rows, lastApplied, delivered>>
  /\ UNCHANGED lock

\* start_scanner: the await on cancel() completes
CancelReturn ==
  /\ pc = "cancel_wait"
  /\ Stopped(awaiting)
  /\ pc' = "spawn"
  /\ awaiting' = None
  /\ task' = [task EXCEPT ![awaiting] = Joined(@)]
  /\ UNCHANGED <<ret, exit, editing, query, child, records, nextGen, snap, rows, lastApplied, delivered>>
  /\ UNCHANGED lock

SpawnWithoutQuery ==
  /\ pc = "spawn"
  /\ nextGen <= MaxGen
  /\ task' = [task EXCEPT ![nextGen] = [NoTask EXCEPT !.st = "spawned"]]
  /\ child' = nextGen
  /\ nextGen' = nextGen + 1
  /\ IF ret = "main"
       THEN editing' = FALSE /\ pc' = "loop"
       ELSE editing' = editing /\ pc' = "clear"
  /\ UNCHANGED <<ret, awaiting, exit, query, records, snap, rows, lastApplied, delivered>>
  /\ UNCHANGED lock

\* start_scanner: self.child = Some(task::spawn(..)), then the return to the
\* caller: main sets editing = false and enters run, the commit handlers go
\* on to their clear
Spawn ==
  /\ pc = "spawn"
  /\ nextGen <= MaxGen
  /\ task' = [task EXCEPT ![nextGen] = [NoTask EXCEPT !.st = "spawned", !.query = query]]
  /\ child' = nextGen
  /\ nextGen' = nextGen + 1
  /\ IF ret = "main"
       THEN editing' = FALSE /\ pc' = "loop"
       ELSE editing' = editing /\ pc' = "clear"
  /\ UNCHANGED <<ret, awaiting, exit, query, records, snap, rows, lastApplied, delivered>>
  /\ UNCHANGED lock

\* the foreground takes the mutex: lock() of render's clone, or of the clear
\* that follows start_scanner in the commit handlers
FgLock ==
  /\ \/ pc = "loop" /\ ~exit
     \/ pc = "clear"
  /\ lock = Free
  /\ lock' = HeldByFg
  /\ UNCHANGED <<pc, ret, awaiting, exit, editing, query, child, records, task, nextGen, snap, rows, lastApplied, delivered>>

ClearSkipped ==
  /\ pc = "clear"
  /\ lock = HeldByFg
  /\ lock' = Free
  /\ pc' = "loop"
  /\ UNCHANGED <<ret, awaiting, exit, editing, query, child, records, task, nextGen, snap, rows, lastApplied, delivered>>

\* handle_key_event, Esc and Enter arms: self.records.lock().unwrap().entries.clear()
Clear ==
  /\ pc = "clear"
  /\ lock = HeldByFg
  /\ lock' = Free
  /\ records' = <<>>
  /\ lastApplied' = [k \in SlotKeys |-> None]
  /\ pc' = "loop"
  /\ UNCHANGED <<ret, awaiting, exit, editing, query, child, task, nextGen, snap, rows, delivered>>

\* -------------------------------------------------------- foreground: run
\* run: terminal.draw -> render: the clone of the entries under the lock,
\* released at the end of the statement, and the rows built from the clone
Draw ==
  /\ pc = "loop"
  /\ ~exit
  /\ lock = HeldByFg
  /\ lock' = Free
  /\ snap' = records
  /\ rows' = Rows(records)
  /\ pc' = "poll"
  /\ UNCHANGED <<ret, awaiting, exit, editing, query, child, records, task, nextGen, lastApplied, delivered>>

\* run: event::poll times out, or the event read is not a key press; the
\* clone of render is gone by then
PollNone ==
  /\ pc = "poll"
  /\ pc' = "loop"
  /\ snap' = <<>>
  /\ rows' = <<>>
  /\ UNCHANGED lock
  /\ UNCHANGED <<ret, awaiting, exit, editing, query, child, records, task, nextGen, lastApplied, delivered>>

\* handle_key_event
HandleKey(k) ==
  /\ pc = "poll"
  /\ snap' = <<>>
  /\ rows' = <<>>
  /\ UNCHANGED lock
  /\ IF ~editing
       THEN /\ exit' = (exit \/ k \in {"q", "Esc"})
            /\ editing' = (k = "/")
            /\ pc' = "loop"
            /\ UNCHANGED <<query, ret, awaiting, child, task>>
       ELSE /\ exit' = exit
            /\ CASE k \in KeyChars ->
                      /\ k \in TypedChars
                      /\ Len(query) < MaxQueryLen
                      /\ query' = Append(query, k)
                      /\ pc' = "loop"
                      /\ UNCHANGED <<editing, ret, awaiting, child, task>>
                 [] k \in {"Esc", "Enter"} ->
                      /\ nextGen <= MaxGen
                      /\ editing' = FALSE
                      /\ StartScanner("commit")
                      /\ UNCHANGED query
                 [] k = "Backspace" ->
                      /\ query' = IF query = <<>> THEN query
                                  ELSE SubSeq(query, 1, Len(query) - 1)
                      /\ pc' = "loop"
                      /\ UNCHANGED <<editing, ret, awaiting, child, task>>
                 [] OTHER ->
                      /\ pc' = "loop"
                      /\ UNCHANGED <<editing, query, ret, awaiting, child, task>>
  /\ UNCHANGED <<records, nextGen, lastApplied, delivered>>

ShutdownNoCancel ==
  /\ pc = "loop"
  /\ exit
  /\ pc' = "terminal"
  /\ UNCHANGED <<ret, awaiting, exit, editing, query, child, records, task, nextGen, snap, rows, lastApplied, delivered>>
  /\ UNCHANGED lock

\* run, after the loop: mem::take(&mut self.child) and cancel()
Shutdown ==
  /\ pc = "loop"
  /\ exit
  /\ child' = None
  /\ IF child # None
       THEN /\ task' = [task EXCEPT ![child].cancel = TRUE]
            /\ awaiting' = child
            /\ pc' = "shutdown_wait"
       ELSE /\ pc' = "terminal"
            /\ UNCHANGED <<task, awaiting>>
  /\ UNCHANGED <<ret, exit, editing, query, records, nextGen, snap, rows, lastApplied, delivered>>
  /\ UNCHANGED lock

\* run: the await on cancel() completes, run returns and main exits
ShutdownReturn ==
  /\ pc = "shutdown_wait"
  /\ Stopped(awaiting)
  /\ pc' = "terminal"
  /\ awaiting' = None
  /\ UNCHANGED <<ret, exit, editing, query, child, records, task, nextGen, snap, rows, lastApplied, delivered>>
  /\ UNCHANGED lock

\* ---------------------------------------------------------------- scan task
fgvars == <<pc, ret, awaiting, exit, editing, query, child, nextGen, snap, rows>>

TaskOpenSharedQuery(g, opened) ==
  /\ task[g].st = "spawned"
  /\ ~task[g].cancel
  /\ task' = [task EXCEPT ![g] = IF opened THEN [@ EXCEPT !.st = "poll", !.query = query]
                                 ELSE [NoTask EXCEPT !.st = "panicked"]]
  /\ UNCHANGED <<fgvars, records, lastApplied, delivered>>
  /\ UNCHANGED lock

\* first poll of the spawned future: discover::all(query, 5 s).unwrap().listen()
TaskOpen(g, opened) ==
  /\ task[g].st = "spawned"
  /\ ~task[g].cancel
  /\ task' = [task EXCEPT ![g] = IF opened THEN [@ EXCEPT !.st = "poll"]
                                 ELSE [NoTask EXCEPT !.st = "panicked"]]
  /\ UNCHANGED <<fgvars, records, lastApplied, delivered>>
  /\ UNCHANGED lock

TaskDropUnstartedOnly(g) ==
  /\ task[g].st = "spawned"
  /\ task[g].cancel
  /\ task' = [task EXCEPT ![g] = [NoTask EXCEPT !.st = "cancelled"]]
  /\ UNCHANGED <<fgvars, records, lastApplied, delivered>>
  /\ UNCHANGED lock

TaskDropMidBatch(g) ==
  /\ task[g].st \in {"spawned", "suspended"} \cup MidBatch
  /\ task[g].cancel
  /\ lock # HeldByTask(g)
  /\ task' = [task EXCEPT ![g] = [NoTask EXCEPT !.st = "cancelled"]]
  /\ UNCHANGED <<fgvars, records, lastApplied, delivered>>
  /\ UNCHANGED lock

\* a closed task that is not being polled: the executor drops its future
TaskDrop(g) ==
  /\ task[g].st \in {"spawned", "suspended"}
  /\ task[g].cancel
  /\ task' = [task EXCEPT ![g] = [NoTask EXCEPT !.st = "cancelled"]]
  /\ UNCHANGED <<fgvars, records, lastApplied, delivered>>
  /\ UNCHANGED lock

\* stream.next().await is Ready, in the poll the task is running or, for a
\* suspended task that was not closed, in the poll its waker schedules: the
\* while-let pattern and the collect of res
TaskPollItem(g, item) ==
  /\ \/ task[g].st = "poll"
     \/ task[g].st = "suspended" /\ ~task[g].cancel
  /\ delivered + Cost(item) <= MaxWire
  /\ LET res == FilterMap(item.recs) IN
     task' = [task EXCEPT ![g] =
       IF item.kind = "ok"
         THEN [@ EXCEPT !.last = "ok", !.batch = res, !.i = 1,
                        !.pre = records,
                        !.st = IF res = <<>> THEN "sort" ELSE "retain"]
         ELSE [NoTask EXCEPT !.st = "ended", !.last = item.kind]]
  /\ delivered' = delivered + Cost(item)
  /\ UNCHANGED <<fgvars, records, lastApplied>>
  /\ UNCHANGED lock

\* stream.next().await is Pending: the task returns to the executor, which
\* drops the future when the task was closed meanwhile
TaskPollPending(g) ==
  /\ task[g].st = "poll"
  /\ task' = [task EXCEPT ![g] = IF task[g].cancel THEN [NoTask EXCEPT !.st = "cancelled"]
                                 ELSE [@ EXCEPT !.st = "suspended"]]
  /\ UNCHANGED <<fgvars, records, lastApplied, delivered>>
  /\ UNCHANGED lock

\* records.lock() in one of the three statements of the loop body
TaskLock(g) ==
  /\ task[g].st \in MidBatch
  /\ lock = Free
  /\ lock' = HeldByTask(g)
  /\ UNCHANGED <<fgvars, records, task, lastApplied, delivered>>

\* records.lock().unwrap().entries.retain(..)
TaskRetain(g) ==
  /\ task[g].st = "retain"
  /\ lock = HeldByTask(g)
  /\ lock' = Free
  /\ records' = Retain(records, task[g].batch[task[g].i])
  /\ task' = [task EXCEPT ![g].st = "push"]
  /\ UNCHANGED <<fgvars, lastApplied, delivered>>

\* records.lock().unwrap().entries.push(RecordEntry::new(addr, name)), and
\* the step of the for loop
TaskPush(g) ==
  /\ task[g].st = "push"
  /\ lock = HeldByTask(g)
  /\ lock' = Free
  /\ LET p == task[g].batch[task[g].i] IN
       /\ records' = Append(records, RecordEntryNew(p, g))
       /\ lastApplied' = [lastApplied EXCEPT ![<<p.fam, p.name>>] = p.addr]
  /\ task' = [task EXCEPT ![g].i = @ + 1,
                          ![g].st = IF task[g].i < Len(task[g].batch) THEN "retain" ELSE "sort"]
  /\ UNCHANGED <<fgvars, delivered>>

TaskSortKeepsLock(g) ==
  /\ task[g].st = "sort"
  /\ lock = HeldByTask(g)
  /\ lock' = lock
  /\ records' = Sort(records)
  /\ task' = [task EXCEPT ![g].st = "poll", ![g].batch = <<>>, ![g].i = 0, ![g].pre = <<>>]
  /\ UNCHANGED <<fgvars, lastApplied, delivered>>

\* records.lock().unwrap().entries.sort(), then back to stream.next()
TaskSort(g) ==
  /\ task[g].st = "sort"
  /\ lock = HeldByTask(g)
  /\ lock' = Free
  /\ records' = Sort(records)
  /\ task' = [task EXCEPT ![g].st = "poll", ![g].batch = <<>>, ![g].i = 0, ![g].pre = <<>>]
  /\ UNCHANGED <<fgvars, lastApplied, delivered>>

Next ==
  \/ \E a \in ArgChoices : MainArgs(a)
  \/ CancelReturn
  \/ Spawn
  \/ FgLock
  \/ Clear
  \/ Draw
  \/ PollNone
  \/ \E k \in Keys : HandleKey(k)
  \/ Shutdown
  \/ ShutdownReturn
  \/ \E g \in Gens, opened \in BOOLEAN : TaskOpen(g, opened)
  \/ \E g \in Gens : TaskDrop(g)
  \/ \E g \in Gens, item \in Items : TaskPollItem(g, item)
  \/ \E g \in Gens : TaskPollPending(g)
  \/ \E g \in Gens : TaskLock(g)
  \/ \E g \in Gens : TaskRetain(g)
  \/ \E g \in Gens : TaskPush(g)
  \/ \E g \in Gens : TaskSort(g)

Spec == Init /\ [][Next]_vars

\* ---------------------------------------------------------------- scheduling
\* the foreground is the thread of main: it runs whenever it is not blocked
\* (event::poll returns after 8 ms at the latest, with or without a key)
FgRun ==
  \/ \E a \in ArgChoices : MainArgs(a)
  \/ CancelReturn
  \/ Spawn
  \/ Clear
  \/ Draw
  \/ PollNone
  \/ \E k \in Keys : HandleKey(k)
  \/ Shutdown
  \/ ShutdownReturn

\* the executor polls a task that is scheduled and drops a closed one; a
\* task waiting for a response is woken by the network only, which owes it
\* nothing
TaskRun(g) ==
  \/ \E opened \in BOOLEAN : TaskOpen(g, opened)
  \/ TaskDrop(g)
  \/ task[g].st = "poll" /\ \E item \in Items : TaskPollItem(g, item)
  \/ TaskPollPending(g)
  \/ TaskRetain(g)
  \/ TaskPush(g)
  \/ TaskSort(g)

\* a thread blocked in lock() gets the mutex when it is released again and
\* again: the holders keep it for one statement.  A stream polled again and
\* again is Pending at some poll: responses arrive at a finite rate.
Fairness ==
  /\ WF_vars(FgRun)
  /\ SF_vars(FgLock)
  /\ \A g \in Gens :
       WF_vars(TaskRun(g)) /\ SF_vars(TaskLock(g)) /\ SF_vars(TaskPollPending(g))

FairSpec == Spec /\ Fairness

TypeOK ==
  /\ pc \in {"main", "cancel_wait", "spawn", "clear", "loop", "poll",
             "shutdown_wait", "terminal"}
  /\ child \in Gens \cup {None}
  /\ query \in Queries
  /\ nextGen \in 1..(MaxGen + 1)
  /\ lock \in {Free, HeldByFg} \cup {HeldByTask(g) : g \in Gens}

\* ------------------------------------------- the store operations by themselves
\* One scan task alone with the store: each response of its stream is applied
\* without interruption (ApplyBatch), the stream may yield the response it
\* has just yielded once more, and render may be run on the store between
\* two responses.  Every store the scan loop can leave behind is reached.
ApplyInit ==
  /\ Init
  /\ pc = "main"

\* one iteration of the scan loop on a response
ApplyResponse(recs) ==
  /\ pc' = "applied"
  /\ task' = [task EXCEPT ![1].batch = FilterMap(recs), ![1].pre = records]
  /\ records' = ApplyBatch(records, FilterMap(recs), 1)
  /\ snap' = <<>>
  /\ rows' = <<>>
  /\ UNCHANGED <<ret, awaiting, exit, editing, query, child, nextGen, lock, lastApplied, delivered>>

\* the next iteration of the loop on a response equal to the last one
ApplyAgain ==
  /\ pc = "applied"
  /\ pc' = "reapplied"
  /\ task' = [task EXCEPT ![1].pre = records]
  /\ records' = ApplyBatch(records, task[1].batch, 1)
  /\ snap' = <<>>
  /\ rows' = <<>>
  /\ UNCHANGED <<ret, awaiting, exit, editing, query, child, nextGen, lock, lastApplied, delivered>>

\* render on the store as the loop left it
RenderStore ==
  /\ snap' = records
  /\ rows' = Rows(records)
  /\ UNCHANGED <<pc, ret, awaiting, exit, editing, query, child, records, task, nextGen, lock, lastApplied, delivered>>

ApplyNext ==
  \/ \E recs \in SeqsUpTo(WireRecords, MaxWire) : ApplyResponse(recs)
  \/ ApplyAgain
  \/ RenderStore

ApplySpec == ApplyInit /\ [][ApplyNext]_vars

\* ------------------------------------------------------------------ claims
SlotOf(e) == <<e.fam, e.name>>
LatestGen == nextGen - 1

\* C1: a snapshot taken by render while a scan task is inside one iteration
\* of its loop equals the store before that batch or the store after the
\* whole batch (evictions, insertions and sort done).
C1_SnapshotAtomic ==
  [][(pc = "loop" /\ pc' = "poll") =>
       \A g \in Gens :
         task[g].st \in MidBatch =>
           snap' \in {task[g].pre, ApplyBatch(task[g].pre, task[g].batch, g)}]_vars

\* C2: at most one scan task is alive, it is the task of the handle the
\* application holds or is cancelling, and no task is alive at the moment
\* start_scanner spawns the next one.
C2_AtMostOneTask ==
  /\ Cardinality({g \in Gens : Alive(g)}) <= 1
  /\ \A g \in Gens : Alive(g) => (child = g \/ awaiting = g)
  /\ pc = "spawn" => \A g \in Gens : ~Alive(g)

\* a second task is writing the store after the first one was cancelled
C2_Witness ==
  \E g \in Gens : g > 1 /\ task[g].st \in MidBatch /\ task[g - 1].st = "joined"

\* C3: on a restart the store is cleared before the new task is launched:
\* when the clear runs no scan task is alive and the store holds no entry
\* pushed by the task of that restart.
C3_ClearBeforeLaunch ==
  pc = "clear" =>
    /\ \A g \in Gens : ~Alive(g)
    /\ \A i \in DOMAIN records : records[i].gen # child

\* C4: once the commit handler has returned, every entry of the store, and
\* of every snapshot render takes, was pushed by the task launched last.
C4_NoStaleAfterRestart ==
  /\ pc \in {"loop", "poll", "shutdown_wait", "terminal"} =>
       \A i \in DOMAIN records : records[i].gen = LatestGen
  /\ pc = "poll" => \A i \in DOMAIN snap : snap[i].gen = LatestGen

\* the restart has returned with an empty store although the stream of the
\* first task had yielded items and the second task has not run yet
C4_Witness ==
  /\ pc = "loop"
  /\ nextGen = 3
  /\ task[1].st = "joined"
  /\ task[2].st = "spawned"
  /\ delivered >= 1
  /\ records = <<>>

\* C5: in every state, the states between the retain, push and sort of one
\* batch included, the store holds at most one entry per (family, name).
C5_OnePerSlot ==
  \A i, j \in DOMAIN records : i # j => SlotOf(records[i]) # SlotOf(records[j])

\* between the steps of a batch: the old entry of a slot has been evicted
\* and the new one is not pushed yet
C5_Witness ==
  \E g \in Gens :
    /\ task[g].st = "push"
    /\ LET p == task[g].batch[task[g].i] IN
         /\ lastApplied[<<p.fam, p.name>>] # None
         /\ find(records, p.name)[IF p.fam = 4 THEN 1 ELSE 2] = None

\* the slot whose entry a task has evicted and not yet pushed again
Pending(slot) ==
  \E g \in Gens : task[g].st = "push" /\ SlotOf(task[g].batch[task[g].i]) = slot

C7_ErrorNonFatal ==
  \A g \in Gens : task[g].last = "err" => task[g].st # "ended"

\* C8: a failure to open the discovery session is returned to the caller of
\* start_scanner: no scan task panics on it.
C8_OpenFailureSurfaced ==
  \A g \in Gens : task[g].st # "panicked"

\* C9: when main enters run, either a query was supplied, the machine is
\* Viewing and exactly one task was launched with that query, or none was
\* supplied and the machine is Editing with an empty query and no task.
C9_InitialState ==
  [][/\ (pc = "spawn" /\ ret = "main" /\ pc' = "loop") =>
          /\ ~editing'
          /\ child' = 1 /\ nextGen' = 2
          /\ task'[1].st = "spawned" /\ task'[1].query = query'
     /\ (pc = "main" /\ pc' = "loop") =>
          /\ editing'
          /\ query' = <<>>
          /\ child' = None /\ nextGen' = 1]_vars

C11_CancellationBoundary ==
  [][/\ \A g \in Gens :
          /\ task[g].st \in DeadStates => task'[g].st \in DeadStates \cup {"unborn"}
          /\ task[g].st \in DeadStates => task'[g].batch = <<>>
          /\ task[g].st \in MidBatch =>
                \/ task'[g] = task[g]
                \/ task'[g] = [task[g] EXCEPT !.cancel = TRUE]
                \/ task[g].st = "retain" /\ task'[g].st = "push"
                \/ task[g].st = "push" /\ task'[g].st \in {"retain", "sort"}
                \/ task[g].st = "sort" /\ task'[g].st = "poll"
                      /\ records' = Sort(records)
     /\ records' # records =>
          \/ pc = "clear" /\ pc' = "loop"
          \/ \E g \in Gens :
               /\ task[g].st \in MidBatch
               /\ task'[g].st # task[g].st
               /\ g \in {child, awaiting}
     /\ (pc \in {"cancel_wait", "shutdown_wait"} /\ pc' \notin {"cancel_wait", "shutdown_wait"}) =>
          /\ task[awaiting].st \in DeadStates
          /\ \A g \in Gens : task[g].st \notin AliveStates]_vars

\* C11 witness: the cancellation of a task was requested while it was inside
\* a batch of two records, and the task has carried the batch to its sort
C11_Witness ==
  \E g \in Gens :
    /\ pc = "cancel_wait" /\ awaiting = g
    /\ task[g].cancel
    /\ task[g].st = "sort"
    /\ Len(task[g].batch) = 2
    /\ \A j \in 1..2 : \E n \in 1..Len(records) :
         records[n] = RecordEntryNew(task[g].batch[j], g)

\* C12: applying a batch is idempotent: when the scan loop has processed a
\* response and processes an equal response next, the second pass leaves the
\* store as the first pass left it, whatever the store held before and
\* whatever the batch holds (repeated keys included).
C12_ApplyIdempotent ==
  pc = "reapplied" => records = task[1].pre

\* C12 witness: a batch of two bindings for one key, applied twice to a store
\* that holds a binding of another key as well
C12_Witness ==
  /\ pc = "reapplied"
  /\ Len(task[1].batch) = 2
  /\ SlotOf(task[1].batch[1]) = SlotOf(task[1].batch[2])
  /\ task[1].batch[1].addr # task[1].batch[2].addr
  /\ Len(records) = 2

\* addresses the sequence s binds to the name in the family
Bound(s, fam, name) ==
  {s[n].addr : n \in {m \in 1..Len(s) : s[m].fam = fam /\ s[m].name = name}}

\* what a lookup may answer for a set of bound addresses
Answers(S) == IF S = {} THEN {None} ELSE S

\* C13: lookup of a host name answers, for each family by itself, the
\* address the store binds to that name in that family, or absent when it
\* binds none, so (present, absent), (absent, present), both and neither all
\* occur; the bindings of other names do not enter the answer.  The rows of
\* render show that answer, "Not found" standing for absent.
C13_Lookup ==
  /\ \A name \in Names :
       /\ find(records, name)[1] \in Answers(Bound(records, 4, name))
       /\ find(records, name)[2] \in Answers(Bound(records, 6, name))
  /\ \A j \in 1..Len(rows) :
       /\ rows[j].v4.ip \in Answers(Bound(snap, 4, rows[j].host))
       /\ rows[j].v6.ip \in Answers(Bound(snap, 6, rows[j].host))
       /\ (rows[j].v4.text = "Not found") = (Bound(snap, 4, rows[j].host) = {})
       /\ (rows[j].v6.text = "Not found") = (Bound(snap, 6, rows[j].host) = {})

\* C13 witness: render has run on a store that binds both families for one
\* name and IPv4 only for the other
C13_Witness ==
  /\ Len(rows) = 2
  /\ \E j, n \in 1..2 :
       /\ rows[j].v4.text = "ip" /\ rows[j].v6.text = "ip"
       /\ rows[n].v4.text = "ip" /\ rows[n].v6.text = "Not found"
       /\ rows[j].v4.ip # None /\ rows[n].v6.ip = None

\* C14: in Editing, Enter and Esc alike commit whatever the buffer holds: the
\* mode becomes Viewing, the buffer is left as it is, and the start that
\* follows launches one scan task, whose query is the buffer of the commit,
\* before the handler returns; the other keys keep Editing, a character is
\* appended, Backspace drops the last character and does nothing to an empty
\* buffer; and no key pressed in Editing sets the exit flag.
C14_EditingCommit ==
  [][/\ \A k \in {"Esc", "Enter"} :
          (editing /\ HandleKey(k)) =>
             /\ ~editing' /\ ~exit'
             /\ query' = query
             /\ ret' = "commit"
             /\ pc' \in {"cancel_wait", "spawn"}
     /\ \A k \in Keys \ {"Esc", "Enter"} :
          (editing /\ HandleKey(k)) =>
             /\ editing' /\ ~exit'
             /\ pc' = "loop"
             /\ child' = child
             /\ k \in KeyChars => query' = Append(query, k)
             /\ k = "Backspace" =>
                   /\ Len(query') = IF query = <<>> THEN 0 ELSE Len(query) - 1
                   /\ \A j \in 1..Len(query') : query'[j] = query[j]
             /\ k \notin KeyChars \cup {"Backspace"} => query' = query
     /\ (ret = "commit" /\ pc \in {"cancel_wait", "spawn", "clear"}) =>
          /\ ~editing /\ ~editing' /\ ~exit'
          /\ query' = query
          /\ pc = "cancel_wait" => pc' \in {"cancel_wait", "spawn"} /\ child' = None
          /\ pc = "spawn" => pc' \in {"spawn", "clear"}
          /\ pc = "clear" => pc' \in {"clear", "loop"} /\ child' = child
          /\ (pc = "spawn" /\ pc' = "clear") =>
                /\ child = None /\ child' \in Gens
                /\ task[child'].st = "unborn"
                /\ task'[child'].st = "spawned"
                /\ task'[child'].query = query
                /\ \A g \in Gens \ {child'} : task'[g] = task[g]
     /\ editing => ~exit']_vars

\* C14 witness: a commit of a non-empty buffer, made while an earlier scan
\* task was held, has launched the next task and is about to return
C14_Witness ==
  /\ pc = "clear" /\ ret = "commit"
  /\ ~editing
  /\ query # <<>>
  /\ child = MaxGen
  /\ task[child].st = "spawned"
  /\ task[child].query = query

\* C15: the mutex is not held across a suspension point and nobody waits
\* for it for ever: a task that is not inside one of the three statements of
\* its loop body (so also one suspended on stream.next()) does not hold it,
\* the foreground holds it nowhere but in the clone of render and in the
\* clear (so not while it awaits a cancellation), and a scan task, a clear
\* or a snapshot that wants the mutex gets it.
C15_LockDiscipline ==
  /\ [](\A g \in Gens : task[g].st \notin MidBatch => lock # HeldByTask(g))
  /\ [](pc \notin {"loop", "clear"} => lock # HeldByFg)
  /\ \A g \in Gens : (task[g].st \in MidBatch) ~> (lock = HeldByTask(g))
  /\ (pc = "clear") ~> (lock = HeldByFg)
  /\ (pc = "loop" /\ ~exit) ~> (lock = HeldByFg)

\* C15 witness: the foreground awaits the cancellation of a task that waits
\* for the mutex in the middle of a batch, and the mutex is free
C15_Witness ==
  /\ pc = "cancel_wait"
  /\ task[awaiting].st = "push"
  /\ lock = Free

\* C16: under fair scheduling every start and every shutdown returns: an
\* await on a cancellation ends, whether the task was waiting for a
\* response, inside a batch or stopped already; a start that has begun
\* comes back to the loop in Viewing with a task launched; and once the exit
\* flag is set the program reaches its end.
C16_StartAndShutdownReturn ==
  /\ (pc = "cancel_wait") ~> (pc = "spawn")
  /\ (pc \in {"cancel_wait", "spawn", "clear"}) ~>
        (pc = "loop" /\ ~editing /\ child \in Gens /\ awaiting = None)
  /\ (pc = "shutdown_wait") ~> (pc = "terminal")
  /\ exit ~> (pc = "terminal" /\ \A g \in Gens : ~Alive(g))

\* C16 witness: the shutdown awaits a task that is inside a batch, at its
\* sort, with the cancellation requested
C16_Witness ==
  /\ pc = "shutdown_wait"
  /\ task[awaiting].st = "sort"
  /\ task[awaiting].cancel
  /\ lock = Free

\* C17: editing does not reach the scan: the key that enters edit mode and
\* the keys that append to or delete from the buffer leave the tasks, the
\* handle, the store and its mutex as they are; a task keeps the query it
\* was launched with for as long as it lives; a step of a scan task leaves
\* the query of the application alone; and in the key handler the handle
\* changes on a commit only.
C17_EditingFrame ==
  [][/\ \A k \in Keys :
          (HandleKey(k) /\ (IF editing THEN k \notin {"Esc", "Enter"} ELSE k = "/")) =>
             /\ task' = task
             /\ child' = child
             /\ records' = records
             /\ lock' = lock
     /\ \A g \in Gens :
          (Alive(g) /\ task'[g].st \in AliveStates) => task'[g].query = task[g].query
     /\ (\E g \in Gens : task'[g].st # task[g].st /\ task[g].st \in AliveStates
                            /\ task'[g].st # "unborn") =>
          query' = query /\ editing' = editing
     /\ (pc = "poll" /\ child' # child) => (editing /\ ~editing')]_vars

\* C17 witness: in edit mode the buffer has been changed while the scan task
\* launched with the earlier query goes on and the store holds its entries
C17_Witness ==
  /\ editing
  /\ pc = "loop"
  /\ child \in Gens
  /\ task[child].st = "suspended"
  /\ task[child].query # query
  /\ records # <<>>

\* x may stand before y: IPv4 before IPv6, within a family the smaller
\* address first, within an address the smaller host name first
InOrder(x, y) ==
  \/ x.fam = 4 /\ y.fam = 6
  \/ x.fam = y.fam /\ x.addr < y.addr
  \/ x.fam = y.fam /\ x.addr = y.addr /\ NameRank(x.name) <= NameRank(y.name)

\* C18: whenever no scan task is in the middle of a response (every task is
\* waiting for the next response, not started, or stopped), the store is
\* sorted by family, then address, then host name; the clear keeps it so.
C18_StoreSorted ==
  (\A g \in Gens : task[g].st \notin MidBatch) =>
     \A m, n \in 1..Len(records) : m < n => InOrder(records[m], records[n])

\* C18 witness: a task waits for its next response and the store holds an
\* entry of host "b" before an entry of host "a"
C18_Witness ==
  /\ \E g \in Gens : task[g].st = "suspended"
  /\ Len(records) = 2
  /\ records[1].name = "b"
  /\ records[2].name = "a"

\* index of the first entry of the snapshot that carries the host name
FirstOccurrence(h) ==
  CHOOSE n \in 1..Len(snap) :
    snap[n].name = h /\ \A m \in 1..(n - 1) : snap[m].name # h

\* C19: the host column render builds from a snapshot holds every host name
\* that has a binding in the snapshot, each once, in the order of their first
\* entries in the snapshot: one row per host, also for a host bound in both
\* families.
C19_DistinctHostNames ==
  /\ {rows[j].host : j \in 1..Len(rows)} = {snap[n].name : n \in 1..Len(snap)}
  /\ \A j, k \in 1..Len(rows) : j # k => rows[j].host # rows[k].host
  /\ \A j, k \in 1..Len(rows) :
       j < k => FirstOccurrence(rows[j].host) < FirstOccurrence(rows[k].host)

\* C19 witness: render has run on a snapshot with an IPv4 and an IPv6 entry
\* of one host and has built the one row of that host
C19_Witness ==
  /\ pc = "poll"
  /\ Len(snap) = 2
  /\ snap[1].name = snap[2].name
  /\ snap[1].fam # snap[2].fam
  /\ Len(rows) = 1
  /\ rows[1].host = snap[1].name

====
